---- MODULE Spec2Model ----
(***************************************************************************)
(* Prim's minimum spanning tree construction (mst/graph.py) and the        *)
(* breadth-first traversal (mst/bfs.py) over dense adjacency matrices.     *)
(*                                                                         *)
(* A matrix is a function row -> (column -> weight) over 0..n-1, so        *)
(* M[i][j] is numpy's M[i, j].  Weights are small naturals standing for    *)
(* the floats of the program; only their order and their sign are used.    *)
(***************************************************************************)
EXTENDS Integers, Sequences, FiniteSets, TLC

VARIABLES
    adj_mat,           \* Graph.adj_mat (graph.py 12-15)
    mst,               \* Graph.mst (graph.py 18, 86): PyNone or Some(matrix)
    pc,                \* where the caller / the running method is
    starting_node,     \* construct_mst: its argument (graph.py 24)
    visited_vertices,  \* construct_mst: list of vertices in the tree (graph.py 50)
    priority_queue,    \* construct_mst: the heap of (weight, source, destination)
    MST,               \* construct_mst: the matrix under construction (graph.py 54)
    lowest_weight_edge,\* construct_mst: the entry popped by the last iteration
    bfs_adj_mat,       \* BFS.adj_mat (<<>> while no BFS object exists)
    graph,             \* BFS.graph: vertex -> list of its neighbours
    start,             \* bfs: its first argument
    end,               \* bfs: its second argument, None by default
    parent,            \* bfs: the dictionary vertex -> discovering vertex (bfs.py 73)
    visited,           \* bfs: list of discovered vertices (bfs.py 74)
    queue,             \* bfs: the deque of vertices to expand (bfs.py 77)
    ret                \* bfs: the value returned

mst_frame == <<starting_node, visited_vertices, priority_queue, MST,
               lowest_weight_edge>>
bfs_frame == <<start, end, parent, visited, queue, ret>>
bfs_object == <<bfs_adj_mat, graph>>

vars == <<adj_mat, mst, pc, mst_frame, bfs_object, bfs_frame>>

(***************************************************************************)
(* Bounds of the model.                                                    *)
(***************************************************************************)
MaxN == 3        \* matrices have 1..MaxN rows
MaxWeight == 3   \* weights are 0..MaxWeight, 0 meaning "no edge"

(***************************************************************************)
(* Python values.                                                          *)
(***************************************************************************)
None == -1   \* the None of an integer argument
PyNone == [isNone |-> TRUE, val |-> <<>>]
Some(x) == [isNone |-> FALSE, val |-> x]

Vertices(n) == 0 .. (n - 1)

\* a variant of InList: the test of line 80 never finds the vertex
InListNever(x, l) == FALSE

\* x in l, for a Python list l
InList(x, l) == \E i \in DOMAIN l : l[i] = x

\* M.shape[0]
shape0(M) == Cardinality(DOMAIN M)

(***************************************************************************)
(* Inputs: symmetric matrices of non-negative weights with a zero          *)
(* diagonal (the data model of an undirected graph without self-loops).    *)
(***************************************************************************)
IsSymmetric(M) == \A i \in DOMAIN M : \A j \in DOMAIN M : M[i][j] = M[j][i]

\* the unordered pairs of different vertices: the cells above the diagonal
UpperCells(n) == { c \in Vertices(n) \X Vertices(n) : c[1] < c[2] }

\* the symmetric matrix with a zero diagonal whose upper triangle is w
SymmetricMatrix(n, w) ==
    [i \in Vertices(n) |-> [j \in Vertices(n) |->
        IF i < j THEN w[<<i, j>>] ELSE IF j < i THEN w[<<j, i>>] ELSE 0]]

InputMatrices ==
    UNION { { SymmetricMatrix(n, w) : w \in [UpperCells(n) -> 0 .. MaxWeight] } :
            n \in 1 .. MaxN }

(***************************************************************************)
(* construct_mst                                                           *)
(***************************************************************************)
\* a variant of TupleLess: the entries ordered by source before weight
TupleLessSourceFirst(a, b) ==
    \/ a[2] < b[2]
    \/ a[2] = b[2] /\ a[1] < b[1]
    \/ a[2] = b[2] /\ a[1] = b[1] /\ a[3] < b[3]

\* Python's tuple order on (weight, source, destination)
TupleLess(a, b) ==
    \/ a[1] < b[1]
    \/ a[1] = b[1] /\ a[2] < b[2]
    \/ a[1] = b[1] /\ a[2] = b[2] /\ a[3] < b[3]

\* a variant of HeapTop: the largest entry, as a max-heap pops
HeapTopMax(pq) == CHOOSE e \in pq : \A f \in pq : f = e \/ TupleLess(f, e)

\* heapq.heappop returns the smallest entry.  The entries of one call are
\* pairwise different (each source is expanded once), so the heap is a set.
HeapTop(pq) == CHOOSE e \in pq : \A f \in pq : f = e \/ TupleLess(e, f)

\* a variant of argwherePositive: the test >= 0, which takes absent edges too
argwhereNonNegative(row) == { j \in DOMAIN row : row[j] >= 0 }

\* np.argwhere(self.adj_mat[start_node] > 0)
argwherePositive(row) == { j \in DOMAIN row : row[j] > 0 }

add_edges_to_pq(pq, start_node) ==
    pq \cup { <<adj_mat[start_node][neighbor], start_node, neighbor>> :
                neighbor \in argwherePositive(adj_mat[start_node]) }

ZeroMatrix(n) == [row \in Vertices(n) |-> [column \in Vertices(n) |-> 0]]

num_vertices == shape0(adj_mat)

\* a variant of LoopTest: the loop stops one vertex early
LoopTestOffByOne == Len(visited_vertices) < num_vertices - 1

\* line 77: the test of the loop
LoopTest == Len(visited_vertices) < num_vertices

\* a variant of ConstructMstCall: the matrix of the earlier call, when there
\* is one, is built upon instead of a new all-zero one
ConstructMstCallKeepMatrix(s) ==
    /\ pc \in {"idle", "mst_returned", "mst_raised"}
    /\ starting_node' = s
    /\ visited_vertices' = <<s>>
    /\ MST' = IF mst.isNone THEN ZeroMatrix(num_vertices) ELSE mst.val
    /\ priority_queue' = add_edges_to_pq({}, s)
    /\ lowest_weight_edge' = <<>>
    /\ pc' = "mst_loop"
    /\ UNCHANGED <<adj_mat, mst, bfs_object, bfs_frame>>

\* lines 49-75: the frame of a new call, up to the first test of the loop
ConstructMstCall(s) ==
    /\ pc \in {"idle", "mst_returned", "mst_raised"}
    /\ starting_node' = s
    /\ visited_vertices' = <<s>>
    /\ MST' = ZeroMatrix(num_vertices)
    /\ priority_queue' = add_edges_to_pq({}, s)
    /\ lowest_weight_edge' = <<>>
    /\ pc' = "mst_loop"
    /\ UNCHANGED <<adj_mat, mst, bfs_object, bfs_frame>>

\* a variant of SetEdge: the source index stored in place of the weight
SetEdgeSourceAsWeight(M, e) ==
    LET M1 == [M EXCEPT ![e[2]][e[3]] = e[2]]
    IN  [M1 EXCEPT ![e[3]][e[2]] = e[2]]

\* a variant of SetEdge: only MST[u, v] is written
SetEdgeOneSide(M, e) == [M EXCEPT ![e[2]][e[3]] = e[1]]

\* MST[u, v] = w; MST[v, u] = w
SetEdge(M, e) ==
    LET M1 == [M EXCEPT ![e[2]][e[3]] = e[1]]
    IN  [M1 EXCEPT ![e[3]][e[2]] = e[1]]

\* lines 77-84: one iteration of the loop on a non-empty heap
ConstructMstIter ==
    /\ pc = "mst_loop"
    /\ LoopTest
    /\ priority_queue # {}
    /\ LET e == HeapTop(priority_queue)
           rest == priority_queue \ {e}
       IN  /\ lowest_weight_edge' = e
           /\ IF ~InList(e[3], visited_vertices)
              THEN /\ MST' = SetEdge(MST, e)
                   /\ visited_vertices' = Append(visited_vertices, e[3])
                   /\ priority_queue' =
                        rest \cup add_edges_to_pq({}, e[3])
              ELSE /\ priority_queue' = rest
                   /\ UNCHANGED <<MST, visited_vertices>>
    /\ UNCHANGED <<adj_mat, mst, pc, starting_node, bfs_object, bfs_frame>>

\* a variant of ConstructMstRaise: the loop is left on an empty heap and the
\* partial matrix stored
ConstructMstBreak ==
    /\ pc = "mst_loop"
    /\ LoopTest
    /\ priority_queue = {}
    /\ mst' = Some(MST)
    /\ pc' = "mst_returned"
    /\ UNCHANGED <<adj_mat, mst_frame, bfs_object, bfs_frame>>

\* line 79 on an empty heap: heappop raises IndexError, which leaves the call
ConstructMstRaise ==
    /\ pc = "mst_loop"
    /\ LoopTest
    /\ priority_queue = {}
    /\ pc' = "mst_raised"
    /\ UNCHANGED <<adj_mat, mst, mst_frame, bfs_object, bfs_frame>>

\* line 86, reached when the loop test fails
ConstructMstReturn ==
    /\ pc = "mst_loop"
    /\ ~LoopTest
    /\ mst' = Some(MST)
    /\ pc' = "mst_returned"
    /\ UNCHANGED <<adj_mat, mst_frame, bfs_object, bfs_frame>>

(***************************************************************************)
(* BFS                                                                     *)
(***************************************************************************)
\* the elements of a set of integers in ascending order
RECURSIVE Ascending(_)
Ascending(S) ==
    IF S = {} THEN <<>>
    ELSE LET m == CHOOSE x \in S : \A y \in S : x <= y
         IN  <<m>> \o Ascending(S \ {m})

\* nx.Graph(adj_mat): an undirected edge for every nonzero cell.  The cells
\* are added row by row, which for a symmetric matrix leaves every
\* adjacency in ascending order.
nxGraph(M) ==
    [u \in DOMAIN M |->
        Ascending({ v \in DOMAIN M : M[u][v] # 0 \/ M[v][u] # 0 })]

\* "if end": None and 0 are both false
Truthy(x) == x # None /\ x # 0

\* lines 45-49: the list from `end` back to `start` along `parent`
RECURSIVE WalkBack(_, _, _)
WalkBack(par, s, path) ==
    IF path[Len(path)] # s
    THEN WalkBack(par, s, Append(path, par[path[Len(path)]]))
    ELSE path

\* path[::-1]
Reversed(l) == [i \in 1 .. Len(l) |-> l[Len(l) + 1 - i]]

\* __trace_path: falls off its end, returning None, when `end` is false
trace_path(par, s, e) ==
    IF Truthy(e) THEN Some(Reversed(WalkBack(par, s, <<e>>))) ELSE PyNone

\* a variant of Expand: queue.appendleft in place of queue.append
RECURSIVE ExpandAppendLeft(_, _, _)
ExpandAppendLeft(nbrs, current_node, st) ==
    IF nbrs = <<>> THEN st
    ELSE LET out_neighbor == Head(nbrs)
         IN  IF ~InList(out_neighbor, st.visited)
             THEN ExpandAppendLeft(Tail(nbrs), current_node,
                         [parent  |-> (out_neighbor :> current_node) @@ st.parent,
                          queue   |-> <<out_neighbor>> \o st.queue,
                          visited |-> Append(st.visited, out_neighbor)])
             ELSE ExpandAppendLeft(Tail(nbrs), current_node, st)

\* lines 89-93: the for loop over the neighbours of current_node
RECURSIVE Expand(_, _, _)
Expand(nbrs, current_node, st) ==
    IF nbrs = <<>> THEN st
    ELSE LET out_neighbor == Head(nbrs)
         IN  IF ~InList(out_neighbor, st.visited)
             THEN Expand(Tail(nbrs), current_node,
                         [parent  |-> (out_neighbor :> current_node) @@ st.parent,
                          queue   |-> Append(st.queue, out_neighbor),
                          visited |-> Append(st.visited, out_neighbor)])
             ELSE Expand(Tail(nbrs), current_node, st)

\* a variant of ExhaustedResult: the visited list returned whatever `end`
ExhaustedResultVisited(e, vis) == Some(vis)

\* lines 94-96: the value returned once the queue is empty
ExhaustedResult(e, vis) == IF e = None THEN Some(vis) ELSE PyNone

\* BFS(g.mst), as check_mst builds it; the frame of construct_mst is gone
BfsNewOnMst ==
    /\ pc = "mst_returned"
    /\ bfs_adj_mat' = mst.val
    /\ graph' = nxGraph(mst.val)
    /\ pc' = "bfs_idle"
    /\ starting_node' = 0
    /\ visited_vertices' = <<>>
    /\ priority_queue' = {}
    /\ MST' = <<>>
    /\ lowest_weight_edge' = <<>>
    /\ UNCHANGED <<adj_mat, mst, bfs_frame>>

\* lines 73-77: the frame of a new call
BfsCall(s, e) ==
    /\ pc \in {"bfs_idle", "bfs_returned"}
    /\ start' = s
    /\ end' = e
    /\ parent' = <<>>
    /\ visited' = <<s>>
    /\ queue' = <<s>>
    /\ ret' = PyNone
    /\ pc' = "bfs_loop"
    /\ UNCHANGED <<adj_mat, mst, mst_frame, bfs_object>>

\* lines 82-93: one iteration of the loop
BfsIter ==
    /\ pc = "bfs_loop"
    /\ queue # <<>>
    /\ LET current_node == Head(queue)
       IN  IF current_node = end
           THEN /\ ret' = trace_path(parent, start, end)
                /\ queue' = Tail(queue)
                /\ pc' = "bfs_returned"
                /\ UNCHANGED <<parent, visited>>
           ELSE LET st == Expand(graph[current_node], current_node,
                                 [parent |-> parent, queue |-> Tail(queue),
                                  visited |-> visited])
                IN  /\ parent' = st.parent
                    /\ queue' = st.queue
                    /\ visited' = st.visited
                    /\ UNCHANGED <<ret, pc>>
    /\ UNCHANGED <<adj_mat, mst, mst_frame, bfs_object, start, end>>

\* lines 94-96: the loop ended on an empty queue
BfsExhausted ==
    /\ pc = "bfs_loop"
    /\ queue = <<>>
    /\ ret' = ExhaustedResult(end, visited)
    /\ pc' = "bfs_returned"
    /\ UNCHANGED <<adj_mat, mst, mst_frame, bfs_object, start, end, parent,
                   visited, queue>>

(***************************************************************************)
(* Spec: a Graph whose construct_mst is called, any number of times, and   *)
(* whose result is then traversed in full by BFS, as check_mst does.       *)
(***************************************************************************)
NoFrames ==
    /\ starting_node = 0
    /\ visited_vertices = <<>>
    /\ priority_queue = {}
    /\ MST = <<>>
    /\ lowest_weight_edge = <<>>
    /\ start = 0
    /\ end = None
    /\ parent = <<>>
    /\ visited = <<>>
    /\ queue = <<>>
    /\ ret = PyNone

Init ==
    /\ adj_mat \in InputMatrices
    /\ mst = PyNone
    /\ pc = "idle"
    /\ bfs_adj_mat = <<>>
    /\ graph = <<>>
    /\ NoFrames

Next ==
    \/ \E s \in Vertices(num_vertices) : ConstructMstCall(s)
    \/ ConstructMstIter
    \/ ConstructMstRaise
    \/ ConstructMstReturn
    \/ BfsNewOnMst
    \/ \E s \in Vertices(num_vertices) : BfsCall(s, None)
    \/ BfsIter
    \/ BfsExhausted

Spec == Init /\ [][Next]_vars

(***************************************************************************)
(* SpecBFS: a BFS object over an input matrix, asked for traversals and    *)
(* for paths.  bfs reads the matrix only through the edges of nx.Graph, so *)
(* the weights drawn are 0, 1 and MaxWeight.                               *)
(***************************************************************************)
BfsInputMatrices ==
    UNION { { SymmetricMatrix(n, w) : w \in [UpperCells(n) -> {0, 1, MaxWeight}] } :
            n \in 1 .. MaxN }

InitBFS ==
    /\ adj_mat \in BfsInputMatrices
    /\ mst = PyNone
    /\ pc = "bfs_idle"
    /\ bfs_adj_mat = adj_mat
    /\ graph = nxGraph(adj_mat)
    /\ NoFrames

NextBFS ==
    \/ \E s \in Vertices(num_vertices) :
         \E e \in Vertices(num_vertices) \cup {None} : BfsCall(s, e)
    \/ BfsIter
    \/ BfsExhausted

SpecBFS == InitBFS /\ [][NextBFS]_vars

(***************************************************************************)
(* SpecTraverse: a BFS object over an input matrix, asked for full         *)
(* traversals only (no end).  A traversal order can only go wrong on a     *)
(* graph with two branches of different depth, which takes six vertices,   *)
(* so besides the small graphs of SpecBFS the inputs here are the forests  *)
(* of up to MaxTraversalN vertices, with weights 0 and 1.                  *)
(***************************************************************************)
MaxTraversalN == 6       \* forests have 1..MaxTraversalN vertices

\* the symmetric 0/1 matrix of the graph on n vertices with the edges E
UnitMatrix(n, E) ==
    [i \in Vertices(n) |-> [j \in Vertices(n) |->
        IF <<i, j>> \in E \/ <<j, i>> \in E THEN 1 ELSE 0]]

\* the edge sets on n vertices in which every vertex is joined to at most
\* one vertex of lower index: forests, and every tree under some numbering
RECURSIVE ForestEdges(_)
ForestEdges(n) ==
    IF n <= 1 THEN { {} }
    ELSE { F \cup e : F \in ForestEdges(n - 1),
                      e \in { {} } \cup { { <<u, n - 1>> } : u \in Vertices(n - 1) } }

TraversalInputMatrices ==
    BfsInputMatrices \cup
    UNION { { UnitMatrix(n, E) : E \in ForestEdges(n) } : n \in 1 .. MaxTraversalN }

InitTraverse ==
    /\ adj_mat \in TraversalInputMatrices
    /\ mst = PyNone
    /\ pc = "bfs_idle"
    /\ bfs_adj_mat = adj_mat
    /\ graph = nxGraph(adj_mat)
    /\ NoFrames

NextTraverse ==
    \/ \E s \in Vertices(num_vertices) : BfsCall(s, None)
    \/ BfsIter
    \/ BfsExhausted

SpecTraverse == InitTraverse /\ [][NextTraverse]_vars

(***************************************************************************)
(* SpecRerun: construct_mst called again and again on one Graph, from any  *)
(* start vertex.  Calls with different start vertices store different      *)
(* trees only from four vertices on, and equal weights suffice for that,   *)
(* so the inputs are the symmetric 0/1 matrices of up to MaxRerunN         *)
(* vertices.                                                               *)
(***************************************************************************)
MaxRerunN == 4           \* these matrices have 1..MaxRerunN vertices

RerunInputMatrices ==
    UNION { { SymmetricMatrix(n, w) : w \in [UpperCells(n) -> {0, 1}] } :
            n \in 1 .. MaxRerunN }

InitRerun ==
    /\ adj_mat \in RerunInputMatrices
    /\ mst = PyNone
    /\ pc = "idle"
    /\ bfs_adj_mat = <<>>
    /\ graph = <<>>
    /\ NoFrames

NextRerun ==
    \/ \E s \in Vertices(num_vertices) : ConstructMstCall(s)
    \/ ConstructMstIter
    \/ ConstructMstRaise
    \/ ConstructMstReturn

SpecRerun == InitRerun /\ [][NextRerun]_vars

(***************************************************************************)
(* Reference notions of graph theory, defined on the matrix alone.         *)
(***************************************************************************)
\* the undirected edges of M: cells above the diagonal of positive weight
EdgesOf(M) == { c \in UpperCells(shape0(M)) : M[c[1]][c[2]] > 0 }

\* the vertices joined to a vertex of S by one edge of E
Adjacent(E, S) ==
    { c[2] : c \in { d \in E : d[1] \in S } } \cup
    { c[1] : c \in { d \in E : d[2] \in S } }

\* the vertices reachable from those of S along edges of E
RECURSIVE Closure(_, _)
Closure(E, S) ==
    LET T == S \cup Adjacent(E, S)
    IN  IF T = S THEN S ELSE Closure(E, T)

ReachableFrom(M, s) == Closure(EdgesOf(M), {s})

IsConnected(M) == ReachableFrom(M, 0) = DOMAIN M

RECURSIVE SumWeights(_, _)
SumWeights(M, E) ==
    IF E = {} THEN 0
    ELSE LET c == CHOOSE d \in E : TRUE
         IN  M[c[1]][c[2]] + SumWeights(M, E \ {c})

SpanningTrees(M) ==
    { T \in SUBSET EdgesOf(M) :
        /\ Cardinality(T) = shape0(M) - 1
        /\ Closure(T, {0}) = DOMAIN M }

MinSpanningWeight(M) ==
    LET W == { SumWeights(M, T) : T \in SpanningTrees(M) }
    IN  CHOOSE w \in W : \A x \in W : w <= x

\* the cells (i, j) with j <= i, which check_mst scans
LowerCells(M) == { c \in (DOMAIN M) \X (DOMAIN M) : c[2] <= c[1] }

\* check_mst's total
LowerTriangleSum(M) == SumWeights(M, LowerCells(M))

\* check_mst's num_edges
LowerTriangleNonzero(M) ==
    Cardinality({ c \in LowerCells(M) : M[c[1]][c[2]] > 0 })

(***************************************************************************)
(* Claims about construct_mst                                              *)
(***************************************************************************)
\* C1: on a connected (symmetric, non-negative) input construct_mst does
\* not raise, whatever the start vertex, and when it returns the
\* lower-triangle sum of the retained result is the minimum total weight
\* of a spanning tree of the input.
C1_TotalWeightIsMinimum ==
    /\ IsConnected(adj_mat) => pc # "mst_raised"
    /\ pc = "mst_returned" =>
        /\ IsConnected(adj_mat)
        /\ ~mst.isNone
        /\ LowerTriangleSum(mst.val) = MinSpanningWeight(adj_mat)

\* a triangle of three different weights was reduced from a start other than 0
C1_Witness ==
    /\ pc = "mst_returned"
    /\ num_vertices = 3
    /\ starting_node # 0
    /\ Cardinality(EdgesOf(adj_mat)) = 3
    /\ adj_mat[0][1] > adj_mat[1][2]
    /\ adj_mat[1][2] > adj_mat[0][2]
    /\ LowerTriangleSum(mst.val) = adj_mat[1][2] + adj_mat[0][2]

\* C4: when construct_mst returns, the lower triangle of the result, its
\* diagonal included, holds exactly n-1 nonzero entries, and the diagonal
\* is all zero.
C4_EdgeCount ==
    pc = "mst_returned" =>
        /\ LowerTriangleNonzero(mst.val) = num_vertices - 1
        /\ \A i \in DOMAIN mst.val : mst.val[i][i] = 0

\* a graph with more than n-1 edges was reduced to n-1
C4_Witness ==
    /\ pc = "mst_returned"
    /\ num_vertices = MaxN
    /\ Cardinality(EdgesOf(adj_mat)) > num_vertices - 1
    /\ LowerTriangleNonzero(mst.val) = num_vertices - 1

\* the matrices construct_mst holds: the one under construction, the one retained
HeldMatrices ==
    (IF pc \in {"mst_loop", "mst_returned", "mst_raised"} THEN {MST} ELSE {}) \cup
    (IF mst.isNone THEN {} ELSE {mst.val})

\* C8: for a symmetric input, every positive entry of the result (and of
\* the matrix under construction) equals the input's entry there.
C8_EntriesComeFromInput ==
    IsSymmetric(adj_mat) =>
        \A M \in HeldMatrices : \A i \in DOMAIN M : \A j \in DOMAIN M :
            M[i][j] > 0 => M[i][j] = adj_mat[i][j]

\* a result with a positive entry, over an input of several weights
C8_Witness ==
    /\ pc = "mst_returned"
    /\ IsSymmetric(adj_mat)
    /\ num_vertices = MaxN
    /\ \E i \in DOMAIN adj_mat : \E j \in DOMAIN adj_mat :
          /\ mst.val[i][j] > 1
          /\ mst.val[i][j] = adj_mat[i][j]
    /\ \E i \in DOMAIN adj_mat : \E j \in DOMAIN adj_mat :
          adj_mat[i][j] > 0 /\ mst.val[i][j] = 0

\* C9: the result is symmetric, when retained and after every iteration
\* of the loop.
C9_ResultSymmetric == \A M \in HeldMatrices : IsSymmetric(M)

\* an iteration has just written an edge, on both sides of the diagonal
C9_Witness ==
    /\ pc = "mst_loop"
    /\ lowest_weight_edge # <<>>
    /\ MST[lowest_weight_edge[2]][lowest_weight_edge[3]] = lowest_weight_edge[1]
    /\ MST[lowest_weight_edge[3]][lowest_weight_edge[2]] = lowest_weight_edge[1]
    /\ IsSymmetric(MST)

\* C5: the full traversal bfs(v) of the matrix construct_mst retained
\* returns all n vertices, whatever the vertex v it starts from.
C5_TraversalOfResultVisitsAll ==
    (pc = "bfs_returned" /\ end = None /\ bfs_adj_mat = mst.val) =>
        /\ ~ret.isNone
        /\ Len(ret.val) = num_vertices
        /\ { ret.val[i] : i \in DOMAIN ret.val } = Vertices(num_vertices)

\* the result of a graph with a cycle was traversed from the last vertex
C5_Witness ==
    /\ pc = "bfs_returned"
    /\ end = None
    /\ bfs_adj_mat = mst.val
    /\ num_vertices = MaxN
    /\ start = MaxN - 1
    /\ Cardinality(EdgesOf(adj_mat)) > num_vertices - 1
    /\ Len(ret.val) = num_vertices

\* what is left to pop: the entries of the heap, and those that visiting
\* the vertices outside the tree would still push
PendingWork ==
    LET outside == { v \in DOMAIN adj_mat : ~InList(v, visited_vertices) }
        cells == { c \in outside \X DOMAIN adj_mat : adj_mat[c[1]][c[2]] > 0 }
    IN  Cardinality(priority_queue) + Cardinality(cells)

\* C6: on a disconnected input, every step of construct_mst leaves the
\* retained result alone and the call never returns normally; it raises
\* exactly when the heap is empty, with fewer than n vertices visited; and
\* until then each iteration uses up pending work, so the loop ends.
C6_DisconnectedRaises ==
    [][(pc = "mst_loop" /\ ~IsConnected(adj_mat)) =>
          /\ mst' = mst
          /\ pc' \in {"mst_loop", "mst_raised"}
          /\ (priority_queue = {}) <=> (pc' = "mst_raised")
          /\ Len(visited_vertices) < num_vertices
          /\ pc' = "mst_loop" => PendingWork' < PendingWork]_vars

\* the call raised after growing the tree over a component of two or more
C6_Witness ==
    /\ pc = "mst_raised"
    /\ ~IsConnected(adj_mat)
    /\ mst = PyNone
    /\ priority_queue = {}
    /\ Len(visited_vertices) >= 2
    /\ Len(visited_vertices) < num_vertices

\* no two edges of M have the same weight
PairwiseDistinctWeights(M) ==
    \A c \in EdgesOf(M) : \A d \in EdgesOf(M) :
        c # d => M[c[1]][c[2]] # M[d[1]][d[2]]

\* C7: on an input of pairwise distinct weights, a call that returns while
\* the result of an earlier call (of any start) is retained stores that
\* same matrix again.
C7_UniqueUnderDistinctWeights ==
    [][(pc = "mst_loop" /\ pc' = "mst_returned" /\ ~mst.isNone
            /\ PairwiseDistinctWeights(adj_mat)) =>
          mst' = mst]_vars

\* a second call, on a triangle of three different weights, is about to return
C7_Witness ==
    /\ pc = "mst_loop"
    /\ ~LoopTest
    /\ ~mst.isNone
    /\ num_vertices = 3
    /\ Cardinality(EdgesOf(adj_mat)) = 3
    /\ PairwiseDistinctWeights(adj_mat)
    /\ starting_node = 2
    /\ MST = mst.val

(***************************************************************************)
(* Claims about bfs                                                        *)
(***************************************************************************)
\* the fewest edges from a vertex of S to e, which is reachable, plus d
RECURSIVE Distance(_, _, _, _)
Distance(E, S, e, d) ==
    IF e \in S THEN d ELSE Distance(E, S \cup Adjacent(E, S), e, d + 1)

\* r is a list from s to e along positive-weight edges of M, of fewest edges
IsShortestPath(M, s, e, r) ==
    /\ ~r.isNone
    /\ Len(r.val) >= 1
    /\ r.val[1] = s
    /\ r.val[Len(r.val)] = e
    /\ \A i \in 1 .. (Len(r.val) - 1) : M[r.val[i]][r.val[i + 1]] > 0
    /\ Len(r.val) - 1 = Distance(EdgesOf(M), {s}, e, 0)

\* C2: bfs(s, e) with e reachable from s, vertex 0 included, returns a
\* list from s to e along positive-weight edges, of fewest edges.
C2_PathIsShortest ==
    (pc = "bfs_returned" /\ end # None /\ end \in ReachableFrom(bfs_adj_mat, start)) =>
        IsShortestPath(bfs_adj_mat, start, end, ret)

\* C2 for every end but vertex 0
PathIsShortestToNonzeroEnd ==
    (pc = "bfs_returned" /\ end # None /\ end # 0
        /\ end \in ReachableFrom(bfs_adj_mat, start)) =>
        IsShortestPath(bfs_adj_mat, start, end, ret)

\* C3: bfs(v, v) returns [v] for every vertex v, on the first dequeue:
\* nothing was discovered and the queue is empty.
C3_StartEqualsEnd ==
    (pc = "bfs_returned" /\ end = start) =>
        /\ ret = Some(<<start>>)
        /\ visited = <<start>>
        /\ parent = <<>>
        /\ queue = <<>>

\* C3 for every vertex but 0
StartEqualsNonzeroEnd ==
    (pc = "bfs_returned" /\ end = start /\ end # 0) =>
        /\ ret = Some(<<start>>)
        /\ visited = <<start>>
        /\ parent = <<>>
        /\ queue = <<>>

\* C10: bfs(start, end) with end given and not reachable returns None, once
\* the queue is empty and the whole component of start has been discovered.
C10_NoPathReturnsNone ==
    (pc = "bfs_returned" /\ end # None
        /\ end \notin ReachableFrom(bfs_adj_mat, start)) =>
        /\ ret = PyNone
        /\ queue = <<>>
        /\ { visited[i] : i \in DOMAIN visited } = ReachableFrom(bfs_adj_mat, start)

\* no path to a vertex other than 0, from a component of two or more
C10_Witness ==
    /\ pc = "bfs_returned"
    /\ end # None
    /\ end # 0
    /\ end \notin ReachableFrom(bfs_adj_mat, start)
    /\ Len(visited) >= 2
    /\ queue = <<>>
    /\ ret = PyNone

\* the elements of a Python list
Elements(l) == { l[i] : i \in DOMAIN l }

\* l is a list without repetition of the vertices reachable from s in M,
\* s first, in which the fewest-edges distance from s never decreases
IsTraversalOrder(M, s, l) ==
    /\ Len(l) >= 1
    /\ l[1] = s
    /\ Elements(l) = ReachableFrom(M, s)
    /\ Len(l) = Cardinality(ReachableFrom(M, s))
    /\ \A i \in 1 .. (Len(l) - 1) :
          Distance(EdgesOf(M), {s}, l[i], 0) <= Distance(EdgesOf(M), {s}, l[i + 1], 0)

\* what a traversal has left to do: the vertices queued, and twice those
\* not yet discovered (each would be queued once, then dequeued once)
TraversalWork ==
    Len(queue) + 2 * (shape0(bfs_adj_mat) - Len(visited))

\* C11: bfs(start) with no end terminates (every iteration that stays in
\* the loop uses up traversal work, of which there is never less than
\* none) and returns a list: start first, then exactly the vertices of the
\* component of start, each once, in an order of non-decreasing
\* fewest-edges distance from start.
C11_FullTraversalOrder ==
    /\ [](TraversalWork >= 0)
    /\ []((pc = "bfs_returned" /\ end = None) =>
            /\ queue = <<>>
            /\ ~ret.isNone
            /\ IsTraversalOrder(bfs_adj_mat, start, ret.val))
    /\ [][(pc = "bfs_loop" /\ pc' = "bfs_loop" /\ end = None) =>
            TraversalWork' < TraversalWork]_vars

\* a traversal returned over a component of five or more that reaches
\* distance 3, in a graph that has vertices outside that component
C11_Witness ==
    /\ pc = "bfs_returned"
    /\ end = None
    /\ ~ret.isNone
    /\ Len(ret.val) >= 5
    /\ Len(ret.val) < shape0(bfs_adj_mat)
    /\ Distance(EdgesOf(bfs_adj_mat), {start}, ret.val[Len(ret.val)], 0) = 3
    /\ IsTraversalOrder(bfs_adj_mat, start, ret.val)

(***************************************************************************)
(* Claims about repeated calls and about the loop of construct_mst         *)
(***************************************************************************)
\* lines 77-84 run to their end from the frame (vis, pq, M), on adj_mat
RECURSIVE RunLoop(_, _, _)
RunLoop(vis, pq, M) ==
    IF ~(Len(vis) < num_vertices) \/ pq = {} THEN M
    ELSE LET e == HeapTop(pq)
             rest == pq \ {e}
         IN  IF ~InList(e[3], vis)
             THEN RunLoop(Append(vis, e[3]), rest \cup add_edges_to_pq({}, e[3]),
                          SetEdge(M, e))
             ELSE RunLoop(vis, rest, M)

\* what one construct_mst(s) stores on a Graph of adj_mat that never ran one
FreshResult(s) ==
    RunLoop(<<s>>, add_edges_to_pq({}, s), ZeroMatrix(num_vertices))

\* C12: whatever calls came before on the same Graph, a call starts from
\* a new all-zero matrix, and the matrix it is about to store, and then
\* retains, is the one a single call with the same start vertex stores on
\* a fresh Graph of the same matrix.
C12_RerunIsFresh ==
    /\ (pc = "mst_loop" /\ lowest_weight_edge = <<>>) =>
          MST = ZeroMatrix(num_vertices)
    /\ (pc = "mst_loop" /\ ~LoopTest) => MST = FreshResult(starting_node)
    /\ pc = "mst_returned" => mst = Some(FreshResult(starting_node))

\* a later call is about to overwrite the different result of an earlier one
C12_Witness ==
    /\ pc = "mst_loop"
    /\ ~LoopTest
    /\ ~mst.isNone
    /\ mst.val # MST
    /\ MST = FreshResult(starting_node)

\* l holds no value twice
NoDuplicates(l) == \A i, j \in DOMAIN l : l[i] = l[j] => i = j

\* C13: during construct_mst on a connected input, the visited list is
\* [start] after the call step and never holds a vertex twice; an iteration
\* pops the least entry of the heap, appends exactly its destination when
\* that is unvisited, and leaves the list and the matrix alone when it is
\* visited; the heap is never found empty, each iteration uses up pending
\* work, and the loop stops, by the return, exactly when the list holds all
\* n vertices.
C13_VisitedGrowsByOne ==
    /\ []((pc = "mst_loop" /\ IsConnected(adj_mat)) =>
            /\ Len(visited_vertices) >= 1
            /\ visited_vertices[1] = starting_node
            /\ NoDuplicates(visited_vertices)
            /\ Elements(visited_vertices) \subseteq Vertices(num_vertices)
            /\ (Len(visited_vertices) = num_vertices) <=> ~LoopTest
            /\ LoopTest => priority_queue # {})
    /\ [][IsConnected(adj_mat) =>
            /\ (pc # "mst_loop" /\ pc' = "mst_loop") =>
                  visited_vertices' = <<starting_node'>>
            /\ (pc = "mst_loop" /\ pc' = "mst_loop") =>
                  /\ LoopTest
                  /\ lowest_weight_edge' = HeapTop(priority_queue)
                  /\ IF lowest_weight_edge'[3] \in Elements(visited_vertices)
                     THEN /\ visited_vertices' = visited_vertices
                          /\ MST' = MST
                     ELSE /\ visited_vertices' =
                               Append(visited_vertices, lowest_weight_edge'[3])
                          /\ Len(visited_vertices') = Len(visited_vertices) + 1
                  /\ PendingWork' < PendingWork
            /\ (pc = "mst_loop" /\ pc' # "mst_loop") =>
                  /\ pc' = "mst_returned"
                  /\ Elements(visited_vertices) = Vertices(num_vertices)
                  /\ visited_vertices' = visited_vertices]_vars

\* on a connected input, a pop has just been discarded after the list grew
C13_Witness ==
    /\ pc = "mst_loop"
    /\ IsConnected(adj_mat)
    /\ lowest_weight_edge # <<>>
    /\ Len(visited_vertices) >= 2
    /\ LoopTest
    /\ lowest_weight_edge[3] # visited_vertices[Len(visited_vertices)]
    /\ lowest_weight_edge[3] \in Elements(visited_vertices)
====
